---- MODULE Spec2Model ----
(***************************************************************************)
(* Model of the proxy's resilience core: the shared KeyPool (auth.rs), the *)
(* Authorize middleware and its ResponseFuture (auth.rs), and the          *)
(* WithBackoff retry policy (retry.rs) as composed in main.rs.             *)
(*                                                                         *)
(* Strings are sequences of tokens, Option<T> is a sequence of length at   *)
(* most one: None is <<>> and Some(x) is <<x>>.                            *)
(***************************************************************************)
EXTENDS Integers, Sequences, FiniteSets, TLC

VARIABLES
    keys,       \* KeyPool.data.0 : Vec<String>
    cursor,     \* KeyPool.data.1 : usize
    initKeys,   \* the list KeyPool::new was given (history)
    pc,         \* per request task: where it stands in the pipeline
    req,        \* per request: the request being dispatched (its Authorization header)
    cloned,     \* per request: tower Retry's stored clone_request copy
    cur_key,    \* per request: ResponseFuture.cur_key
    result,     \* per request: the inner future's output
    attempts,   \* per request: WithBackoff.attempts
    backoff,    \* the ExponentialBackoff the policy was built with; every
                \* request gets a clone of the policy
    iterations, \* per request: ExponentialBackoff.iterations of its clone
    budget,     \* per request: the attempts WithBackoff::new was given (history)
    calls,      \* per request: number of Authorize::call dispatches so far (history)
    traced,     \* whether outcomes are recorded in hist (fixed by Init)
    hist,       \* of the traced request: the Authorization header and the body
                \* stream it arrived with, how often that stream was read, the
                \* outcomes it has received, in order, and the pool as it was
                \* when the last attempt was dispatched (history)
    op,         \* last direct call of a KeyPool or policy function: its name
    arg,        \* last direct call: its argument
    ret,        \* last direct call: what it returned (None for the
                \* KeyPool calls that return nothing)
    runStart,   \* cursor at the start of the current run of matching shifts
    runKey,     \* active key at the start of that run
    runLen,     \* number of consecutive matching shift_if calls in the run
    lock,       \* KeyPool.data's RwLock: the tasks holding a read guard and the
                \* task holding the write guard.  Where a pool call is taken as
                \* one step the lock is free before and after it.
    byte_body,  \* ByteBody.data of a body that is read as a stream
    polled      \* what poll_data has returned for it so far, in order

vars == <<keys, cursor, initKeys, pc, req, cloned, cur_key, result, attempts,
          backoff, iterations, budget, calls, traced, hist, op, arg, ret, runStart, runKey, runLen,
          lock, byte_body, polled>>

poolVars == <<keys, cursor>>
backoffVars == <<backoff, iterations>>
taskVars == <<pc, req, cloned, cur_key, result, attempts, backoffVars, budget, calls,
              traced, hist>>
callVars == <<op, arg, ret, runStart, runKey, runLen>>
bodyVars == <<byte_body, polled>>

----------------------------------------------------------------------------
(* Bounds *)

NumReq == 2
MaxKeys == 2
MaxRetries == 1
MaxHeaders == 3
NanosPerSec == 4
U32Max == 63
U64Max == 511
FDen == 2
MaxBody == 3
MaxPolls == 7

(* Program constants *)

Attempts == 3
UNAUTHORIZED == 401
TOO_MANY_REQUESTS == 429

----------------------------------------------------------------------------
(* Values *)

None == <<>>
Some(x) == <<x>>

K1 == <<"k1">>
K2 == <<"k2">>
K3 == <<"k3">>
K4 == <<"k4">>
Keys == {K1, K2, K3}
KeyList == <<K1, K2, K3, K4>>

SP == " "
Bearer == <<"Bearer", SP>>

Reqs == 1..NumReq

RECURSIVE SeqsUpTo(_, _)
SeqsUpTo(S, n) ==
    IF n = 0 THEN {<<>>}
    ELSE LET shorter == SeqsUpTo(S, n - 1)
         IN  shorter \cup {Append(s, x) : s \in {t \in shorter : Len(t) = n - 1}, x \in S}

\* Credential lists the pool may be built from.  The code only ever compares
\* keys for equality, so lists of distinct keys are taken in one order; a list
\* with a repeated key is among them.
InitPools == {SubSeq(KeyList, 1, n) : n \in 0..MaxKeys} \cup {<<K1, K1>>}

\* For the single-request specifications: every list over Keys.
AllPools == SeqsUpTo(Keys, MaxKeys + 1)

Statuses == {200, UNAUTHORIZED, TOO_MANY_REQUESTS, 500}

NoResult == [kind |-> "none", status |-> 0]
Ok(s) == [kind |-> "ok", status |-> s]
Err == [kind |-> "err", status |-> 0]
Outcomes == {Ok(s) : s \in Statuses} \cup {Err}

\* http::header::AUTHORIZATION (header names are lower case).
AUTHORIZATION == "authorization"

\* A request is its method, its target URI, its header entries in order (a
\* name may have several entries) and its body.  The body of an inbound
\* request is a hyper::Body stream: the chunks it will deliver and whether it
\* ends well; once buffered it is a ByteBody, the sequence of its bytes.
Stream(chunks, ok) == [chunks |-> chunks, ok |-> ok]

\* The requests that arrive while others are being served: one request
\* without an Authorization header, with a bearer token, with an Authorization
\* value that has no space, and with a body stream that breaks off.
Accept == <<"accept", <<"json">>>>
Inbound(headers, ok) ==
    [method |-> "POST", uri |-> "/v6/device", headers |-> headers \o <<Accept>>,
     body |-> Stream(<<<<1>>, <<2, 3>>>>, ok)]

InboundRequests ==
    { Inbound(<<>>, TRUE),
      Inbound(<<<<AUTHORIZATION, Bearer \o K2>>>>, TRUE),
      Inbound(<<<<AUTHORIZATION, <<"k1">>>>>>, TRUE),
      Inbound(<<>>, FALSE) }

\* For the single-request specification: those, and requests with other
\* methods, targets, headers and bodies.
SeqRequests ==
    InboundRequests \cup
    { [method |-> "GET", uri |-> "/v6/ping", headers |-> <<>>,
       body |-> Stream(<<>>, TRUE)],
      [method |-> "PUT", uri |-> "/v6/device",
       headers |-> <<<<AUTHORIZATION, Bearer \o K1>>, Accept>>,
       body |-> Stream(<<<<7>>>>, TRUE)] }

\* No request held.
NoReq == [method |-> "", uri |-> "", headers |-> <<>>, body |-> <<>>]
NoHist == [inbound |-> None, outcomes |-> <<>>, stream |-> None, reads |-> 0,
           pool |-> <<<<>>, 0>>]

----------------------------------------------------------------------------
(* KeyPool (auth.rs).  d is the locked tuple (Vec<String>, usize): d[1] is  *)
(* the key vector, d[2] the cursor (0-based, as in the source).            *)

\* Vec::get(i).cloned()
VecGet(v, i) == IF i < Len(v) THEN Some(v[i + 1]) ELSE None

\* Vec::remove(i) for i < len: the elements after i move one place left.
\* (For i >= len the source panics; CursorValid shows the call site never does.)
VecRemove(v, i) == SubSeq(v, 1, i) \o SubSeq(v, i + 2, Len(v))

\* Faulty variant of active_key: an empty string instead of None.
active_key_or_default(d) == IF d[2] < Len(d[1]) THEN VecGet(d[1], d[2]) ELSE Some(<<>>)

active_key(d) == VecGet(d[1], d[2])

\* Faulty variants of remove_active_key, to show which properties below rest on
\* it: the cursor is not put back in range; the cursor always goes to 0; the
\* removed key is put back at the end of the vector.
remove_active_key_no_reset(d) ==
    IF d[1] = <<>> THEN d ELSE <<VecRemove(d[1], d[2]), d[2]>>

remove_active_key_always_reset(d) ==
    IF d[1] = <<>> THEN d ELSE <<VecRemove(d[1], d[2]), 0>>

remove_active_key_requeue(d) ==
    IF d[1] = <<>> THEN d
    ELSE LET v == Append(VecRemove(d[1], d[2]), d[1][d[2] + 1])
         IN  <<v, d[2]>>

remove_active_key(d) ==
    IF d[1] = <<>>
    THEN d
    ELSE LET v == VecRemove(d[1], d[2])
         IN  <<v, IF d[2] >= Len(v) THEN 0 ELSE d[2]>>

\* Faulty variant of shift_active_key: the cursor stops at the last position.
shift_active_key_no_wrap(d) ==
    IF Len(d[1]) > 1 THEN <<d[1], IF d[2] + 1 < Len(d[1]) THEN d[2] + 1 ELSE d[2]>> ELSE d

shift_active_key(d) ==
    IF Len(d[1]) > 1 THEN <<d[1], (d[2] + 1) % Len(d[1])>> ELSE d

\* The two compare-and-act calls as one caller sees them when nothing else
\* touches the pool between the read of active_key and the write.
shift_active_key_if_equal(d, key) ==
    IF active_key(d) = key THEN shift_active_key(d) ELSE d

\* Faulty variant of remove_active_key_if_equal: no comparison.
remove_active_key_if_equal_unconditional(d, key) == remove_active_key(d)

remove_active_key_if_equal(d, key) ==
    IF active_key(d) = key THEN remove_active_key(d) ELSE d

data == <<keys, cursor>>

----------------------------------------------------------------------------
(* Authorize (auth.rs) *)

\* Position of the first space of a string, 0 if it has none.
FirstSpace(s) ==
    IF \E i \in 1..Len(s) : s[i] = SP
    THEN CHOOSE i \in 1..Len(s) : s[i] = SP /\ \A j \in 1..(i - 1) : s[j] # SP
    ELSE 0

\* HeaderMap::get: the first value stored under the name.
HeaderGet(headers, name) ==
    IF \E i \in 1..Len(headers) : headers[i][1] = name
    THEN LET i == CHOOSE i \in 1..Len(headers) :
                      /\ headers[i][1] = name
                      /\ \A j \in 1..(i - 1) : headers[j][1] # name
         IN  Some(headers[i][2])
    ELSE None

\* HeaderMap::insert: the value takes the place of every value stored under
\* the name (at the place of the first), or is added at the end.
HeaderInsert(headers, name, value) ==
    IF HeaderGet(headers, name) = None
    THEN Append(headers, <<name, value>>)
    ELSE LET i == CHOOSE i \in 1..Len(headers) :
                      /\ headers[i][1] = name
                      /\ \A j \in 1..(i - 1) : headers[j][1] # name
         IN  SubSeq(headers, 1, i - 1) \o <<<<name, value>>>>
             \o SelectSeq(SubSeq(headers, i + 1, Len(headers)), LAMBDA e : e[1] # name)

\* The Authorization header of a request.
Auth(request) == HeaderGet(request.headers, AUTHORIZATION)

\* extract_api_key: splitn(2, ' ') of the Authorization value; the key is what
\* follows the first space, None when the header is absent or has no space.
extract_api_key(request) ==
    IF Auth(request) = None THEN None
    ELSE LET value == Auth(request)[1]
             i == FirstSpace(value)
         IN  IF i = 0 THEN None ELSE Some(SubSeq(value, i + 1, Len(value)))

\* format!("Bearer {}", api_key)
BearerHeader(api_key) == Bearer \o api_key

\* Faulty variant of Inspect: everything but a 429, transport errors included,
\* counts as unauthorized.
InspectTransportErrors(res) ==
    IF res.kind = "ok" /\ res.status = TOO_MANY_REQUESTS THEN "shift" ELSE "remove"

\* The match of ResponseFuture::poll on the inner result.
Inspect(res) ==
    IF res.kind = "ok" /\ res.status = UNAUTHORIZED THEN "remove"
    ELSE IF res.kind = "ok" /\ res.status = TOO_MANY_REQUESTS THEN "shift"
    ELSE "pass"

----------------------------------------------------------------------------
(* ExponentialBackoff (retry.rs).  A Duration is whole seconds (u64) and   *)
(* nanoseconds below one second (u32).  The integer widths are scaled down: *)
(* U64Max and U32Max stand for u64::MAX and u32::MAX, NanosPerSec for the   *)
(* nanoseconds of a second, the sub-second part counting in units of        *)
(* 1/NanosPerSec s.  An f64 is a fraction with a fixed denominator, its     *)
(* products exact.                                                          *)

Dur(secs, nanos) == [secs |-> secs, nanos |-> nanos]
Zero == Dur(0, 0)
Secs(n) == Dur(n, 0)

\* Durations are ordered by seconds, then nanoseconds.
Ticks(d) == d.secs * NanosPerSec + d.nanos
DurMin(a, b) == IF Ticks(a) <= Ticks(b) THEN a ELSE b

\* Duration::new: nanoseconds of a second or more carry into the seconds;
\* None stands for the panic "overflow in Duration::new".
DurationNew(secs, nanos) ==
    IF secs + (nanos \div NanosPerSec) > U64Max THEN None
    ELSE Some(Dur(secs + (nanos \div NanosPerSec), nanos % NanosPerSec))

\* Duration::checked_mul(rhs: u32): None on overflow of the seconds.
checked_mul(d, rhs) ==
    LET total_nanos == d.nanos * rhs
        extra_secs == total_nanos \div NanosPerSec
        nanos == total_nanos % NanosPerSec
    IN  IF d.secs * rhs > U64Max THEN None
        ELSE IF d.secs * rhs + extra_secs > U64Max THEN None
        ELSE Some(Dur(d.secs * rhs + extra_secs, nanos))

\* Duration + Duration and Duration - Duration, for operands that neither
\* overflow nor underflow.
DurAdd(a, b) ==
    Dur(a.secs + b.secs + ((a.nanos + b.nanos) \div NanosPerSec),
        (a.nanos + b.nanos) % NanosPerSec)
DurSub(a, b) ==
    IF a.nanos >= b.nanos THEN Dur(a.secs - b.secs, a.nanos - b.nanos)
    ELSE Dur(a.secs - b.secs - 1, a.nanos + NanosPerSec - b.nanos)

\* 2_u32.saturating_pow(n): 2^n, or u32::MAX once that is exceeded (it is
\* from n = 31 on at the latest, U32Max being below 2^31 here).
saturating_pow2(n) ==
    IF n < 31 /\ 2 ^ n <= U32Max THEN 2 ^ n ELSE U32Max

\* An f64 is the number n that stands for n / FDen.  (x as f64) * (a * b),
\* truncated toward zero as the casts to u64 and u32 do.
FMulTrunc(x, a, b) == (x * a * b) \div (FDen * FDen)

\* The jitter factors the random source may return: the fractions in (0, 1].
Draws == 1..FDen

\* `as u64` and `as u32` of a non-negative f64 already truncated: saturating.
AsU64(x) == IF x > U64Max THEN U64Max ELSE x
AsU32(x) == IF x > U32Max THEN U32Max ELSE x

\* An ExponentialBackoff: min, max, jitter and iterations (the random source
\* is the draw handed to jitter).
Backoff(min, max, jit, n) ==
    [min |-> min, max |-> max, jitter |-> jit, iterations |-> n]

\* ExponentialBackoff::default: 1 s, 60 s, jitter 2.0, no iteration yet.
DefaultMin == 1
DefaultMax == 60
DefaultJitter == 2
Default == Backoff(Secs(DefaultMin), Secs(DefaultMax), DefaultJitter * FDen, 0)

\* ExponentialBackoff::base
base(b) ==
    LET m == checked_mul(b.min, saturating_pow2(b.iterations))
    IN  DurMin(IF m = None THEN b.max ELSE m[1], b.max)

\* ExponentialBackoff::jitter with the factor the random source returned;
\* None when Duration::new panics.
jitter(b, bs, jitter_factor) ==
    IF b.jitter = 0 THEN Some(Zero)
    ELSE LET secs == AsU64(FMulTrunc(bs.secs, jitter_factor, b.jitter))
             nanos == AsU32(FMulTrunc(bs.nanos, jitter_factor, b.jitter))
             remaining == DurSub(b.max, bs)
             d == DurationNew(secs, nanos)
         IN  IF d = None THEN None ELSE Some(DurMin(d[1], remaining))

\* ExponentialBackoff::next up to the sleep: the timeout and the state the
\* future will return.  `this.iterations += 1` on u32::MAX wraps to 0 in a
\* build without overflow checks and panics in one with them.
Panicked == [kind |-> "panic"]
next(b, jitter_factor, overflow_checks) ==
    LET bs == base(b)
        j == jitter(b, bs, jitter_factor)
    IN  IF j = None THEN Panicked
        ELSE IF b.iterations = U32Max /\ overflow_checks THEN Panicked
        ELSE [kind |-> "ok",
              timeout |-> DurAdd(bs, j[1]),
              this |-> [b EXCEPT !.iterations = (@ + 1) % (U32Max + 1)]]

\* What the future of next returns once the sleep is over.
Returned(n) == IF n.kind = "ok" THEN [kind |-> "ok", this |-> n.this] ELSE n

----------------------------------------------------------------------------
(* WithBackoff (retry.rs) *)

\* StatusCode::is_success
is_success(status) == 200 <= status /\ status < 300

\* Faulty variant of retry: gives up with one attempt left.
retry_off_by_one(att, res) ==
    IF res.kind = "ok" /\ is_success(res.status) THEN FALSE
    ELSE att > 1

\* WithBackoff::retry: TRUE when it returns Some(future), FALSE when None.
retry(att, res) ==
    IF res.kind = "ok" /\ is_success(res.status) THEN FALSE
    ELSE IF att = 0 THEN FALSE
    ELSE TRUE

\* Faulty variant of clone_request: the Authorization entries are copied too.
clone_request_copies_all(request) ==
    [uri |-> request.uri,
     method |-> request.method,
     headers |-> request.headers,
     body |-> request.body]

\* Faulty variant of clone_request: the clone gets an empty body.
clone_request_empty_body(request) ==
    [uri |-> request.uri,
     method |-> request.method,
     headers |-> SelectSeq(request.headers, LAMBDA e : e[1] # AUTHORIZATION),
     body |-> <<>>]

\* WithBackoff::clone_request: a new request is built from the uri, the
\* method, every header entry whose name is not Authorization, and a clone of
\* the body (ByteBody::clone shares the same bytes).
clone_request(request) ==
    [uri |-> request.uri,
     method |-> request.method,
     headers |-> SelectSeq(request.headers, LAMBDA e : e[1] # AUTHORIZATION),
     body |-> request.body]

----------------------------------------------------------------------------
(* The request pipeline of main.rs: Retry(WithBackoff) wraps Authorize     *)
(* wraps the transport.  One task per inbound request; the tasks run in    *)
(* parallel and share the KeyPool.  Each action holds at most one lock     *)
(* acquisition of the pool.                                                *)

\* hyper::body::to_bytes: the chunks of the stream concatenated, or the
\* stream's error.
RECURSIVE Concat(_)
Concat(chunks) == IF chunks = <<>> THEN <<>> ELSE Head(chunks) \o Concat(Tail(chunks))

\* Faulty variant of to_bytes: a read error is swallowed and what was read
\* is returned.
to_bytes_lossy(b) == [kind |-> "ok", data |-> Concat(b.chunks)]

to_bytes(b) == IF b.ok THEN [kind |-> "ok", data |-> Concat(b.chunks)]
               ELSE [kind |-> "err", data |-> <<>>]

\* ReadRequestBody::call: the body stream of the inbound request is read to
\* its end; bytes.unwrap() panics on a read error, which ends the task.
\* Otherwise the request, now with a ByteBody, reaches tower's Retry::call,
\* which stores policy.clone_request(&request) and dispatches the original.
Arrive(r, request) ==
    /\ pc[r] = "idle"
    /\ LET bytes == to_bytes(request.body)
           buffered == [request EXCEPT !.body = bytes.data]
       IN  /\ IF bytes.kind = "err"
              THEN /\ pc' = [pc EXCEPT ![r] = "failed"]
                   /\ UNCHANGED <<req, cloned>>
              ELSE /\ pc' = [pc EXCEPT ![r] = "call"]
                   /\ req' = [req EXCEPT ![r] = buffered]
                   /\ cloned' = [cloned EXCEPT ![r] = clone_request(buffered)]
           /\ hist' = IF traced
                      THEN [hist EXCEPT !.inbound = Auth(request),
                                        !.stream = Some(request.body),
                                        !.reads = @ + 1]
                      ELSE hist
    /\ UNCHANGED <<poolVars, callVars, initKeys, bodyVars, lock, cur_key, result, attempts, backoffVars,
                   budget, calls, traced>>

\* Authorize::call: keep a caller's key, else read the pool's active key (one
\* read lock) and insert it as the Authorization header; remember it in the
\* ResponseFuture.
AuthorizeCall(r) ==
    /\ pc[r] = "call"
    /\ LET extracted == extract_api_key(req[r])
           api_key == IF extracted = None THEN active_key(data) ELSE extracted
       IN  /\ cur_key' = [cur_key EXCEPT ![r] = api_key]
           /\ req' = [req EXCEPT ![r] =
                        IF extracted = None /\ api_key # None
                        THEN [@ EXCEPT !.headers = HeaderInsert(@, AUTHORIZATION,
                                                     BearerHeader(api_key[1]))]
                        ELSE @]
    /\ calls' = [calls EXCEPT ![r] = @ + 1]
    /\ pc' = [pc EXCEPT ![r] = "inflight"]
    /\ hist' = IF traced THEN [hist EXCEPT !.pool = data] ELSE hist
    /\ UNCHANGED <<backoffVars, poolVars, callVars, initKeys, bodyVars, lock, cloned, result, attempts, budget,
                   traced>>

\* Faulty variant of PollResponse: the key to act on is read from the pool
\* when the response arrives, so the comparison always succeeds.
PollResponseRereads(r, o) ==
    /\ pc[r] = "inflight"
    /\ result' = [result EXCEPT ![r] = o]
    /\ hist' = IF traced THEN [hist EXCEPT !.outcomes = Append(@, o)] ELSE hist
    /\ req' = [req EXCEPT ![r] = NoReq]
    /\ IF Inspect(o) = "pass"
       THEN /\ pc' = [pc EXCEPT ![r] = "retry"]
            /\ cur_key' = [cur_key EXCEPT ![r] = None]
       ELSE /\ pc' = [pc EXCEPT ![r] = Inspect(o)]
            /\ cur_key' = [cur_key EXCEPT ![r] = active_key(data)]
    /\ UNCHANGED <<backoffVars, poolVars, callVars, initKeys, bodyVars, lock, cloned, attempts, budget, calls,
                   traced>>

\* ResponseFuture::poll once the inner future (which consumed the request) is
\* ready with outcome o: on 401 or 429 the *_if_equal call first reads
\* active_key (read lock, released before the write lock is taken) and compares
\* it with cur_key.  When nothing is left to do the future returns the result
\* and is dropped, cur_key with it.
PollResponse(r, o) ==
    /\ pc[r] = "inflight"
    /\ result' = [result EXCEPT ![r] = o]
    /\ hist' = IF traced THEN [hist EXCEPT !.outcomes = Append(@, o)] ELSE hist
    /\ req' = [req EXCEPT ![r] = NoReq]
    /\ IF Inspect(o) = "pass" \/ active_key(data) # cur_key[r]
       THEN /\ pc' = [pc EXCEPT ![r] = "retry"]
            /\ cur_key' = [cur_key EXCEPT ![r] = None]
       ELSE /\ pc' = [pc EXCEPT ![r] = Inspect(o)]
            /\ cur_key' = cur_key
    /\ UNCHANGED <<backoffVars, poolVars, callVars, initKeys, bodyVars, lock, cloned, attempts, budget, calls,
                   traced>>

\* remove_active_key_if_equal, after the comparison succeeded: remove_active_key
\* under the write lock.
RemoveStep(r) ==
    /\ pc[r] = "remove"
    /\ keys' = remove_active_key(data)[1]
    /\ cursor' = remove_active_key(data)[2]
    /\ pc' = [pc EXCEPT ![r] = "retry"]
    /\ cur_key' = [cur_key EXCEPT ![r] = None]
    /\ UNCHANGED <<backoffVars, callVars, initKeys, bodyVars, lock, req, cloned, result, attempts,
                   budget, calls, traced, hist>>

\* shift_active_key_if_equal, after the comparison succeeded: shift_active_key
\* under the write lock.
ShiftStep(r) ==
    /\ pc[r] = "shift"
    /\ keys' = shift_active_key(data)[1]
    /\ cursor' = shift_active_key(data)[2]
    /\ pc' = [pc EXCEPT ![r] = "retry"]
    /\ cur_key' = [cur_key EXCEPT ![r] = None]
    /\ UNCHANGED <<backoffVars, callVars, initKeys, bodyVars, lock, req, cloned, result, attempts,
                   budget, calls, traced, hist>>

\* The ResponseFuture has returned its result and is dropped; tower's Retry asks
\* WithBackoff::retry about that result: None ends the request with it,
\* Some(future) drops it and starts the backoff.
PolicyRetry(r) ==
    /\ pc[r] = "retry"
    /\ IF retry(attempts[r], result[r])
       THEN /\ pc' = [pc EXCEPT ![r] = "backoff"]
            /\ result' = [result EXCEPT ![r] = NoResult]
       ELSE /\ pc' = [pc EXCEPT ![r] = "done"]
            /\ result' = result
    /\ UNCHANGED <<backoffVars, poolVars, callVars, initKeys, bodyVars, lock, req, cloned, cur_key,
                   attempts, budget, calls, traced, hist>>

\* The ExponentialBackoff of request r's clone of the policy.
BackoffOf(r) == [backoff EXCEPT !.iterations = iterations[r]]

\* The future WithBackoff::retry returned completes (backoff.next().await, then
\* attempts -= 1); tower's Retry takes the stored clone, stores a clone of it
\* and calls Authorize with it.  A panic in next ends the task.
BackoffDone(r) ==
    /\ pc[r] = "backoff"
    /\ \E n \in {Returned(next(BackoffOf(r), jitter_factor, overflow_checks)) :
                       jitter_factor \in Draws, overflow_checks \in BOOLEAN} :
              IF n.kind = "panic"
              THEN /\ pc' = [pc EXCEPT ![r] = "failed"]
                   /\ UNCHANGED <<attempts, iterations, req, cloned>>
              ELSE /\ iterations' = [iterations EXCEPT ![r] = n.this.iterations]
                   /\ attempts' = [attempts EXCEPT ![r] = @ - 1]
                   /\ req' = [req EXCEPT ![r] = cloned[r]]
                   /\ cloned' = [cloned EXCEPT ![r] = clone_request(cloned[r])]
                   /\ pc' = [pc EXCEPT ![r] = "call"]
    /\ UNCHANGED <<poolVars, callVars, initKeys, bodyVars, lock, cur_key, result, backoff, budget,
                   calls, traced, hist>>

\* No ByteBody is being read as a stream.
NoBody == byte_body = <<>> /\ polled = <<>>

\* The RwLock of a new KeyPool: no guard is held.
Unlocked == [readers |-> {}, writer |-> None]

NoCall ==
    /\ op = "none"
    /\ arg = None
    /\ ret = None
    /\ runStart = cursor
    /\ runKey = active_key(data)
    /\ runLen = 0

\* KeyPool::new(keys) puts the cursor at 0; every task gets its own clone of
\* the WithBackoff policy.  main gives it 3 attempts; the interleavings of the
\* tasks are explored for a policy of MaxRetries attempts.
Init ==
    /\ keys \in InitPools
    /\ cursor = 0
    /\ initKeys = keys
    /\ pc = [r \in Reqs |-> "idle"]
    /\ req = [r \in Reqs |-> NoReq]
    /\ cloned = [r \in Reqs |-> NoReq]
    /\ cur_key = [r \in Reqs |-> None]
    /\ result = [r \in Reqs |-> NoResult]
    /\ attempts = [r \in Reqs |-> MaxRetries]
    /\ backoff = Default
    /\ iterations = [r \in Reqs |-> 0]
    /\ budget = attempts
    /\ calls = [r \in Reqs |-> 0]
    /\ traced = FALSE
    /\ hist = NoHist
    /\ lock = Unlocked
    /\ NoBody
    /\ NoCall

Next ==
    \/ \E r \in Reqs, request \in InboundRequests : Arrive(r, request)
    \/ \E r \in Reqs : AuthorizeCall(r)
    \/ \E r \in Reqs, o \in Outcomes : PollResponse(r, o)
    \/ \E r \in Reqs : RemoveStep(r)
    \/ \E r \in Reqs : ShiftStep(r)
    \/ \E r \in Reqs : PolicyRetry(r)
    \/ \E r \in Reqs : BackoffDone(r)

Spec == Init /\ [][Next]_vars

----------------------------------------------------------------------------
(* One inbound request alone, with the policy of main.rs (attempts = 3) or *)
(* a smaller budget, its outcomes recorded in hist.                        *)

InitSeq ==
    /\ keys \in AllPools
    /\ cursor = 0
    /\ initKeys = keys
    /\ pc = [r \in Reqs |-> IF r = 1 THEN "idle" ELSE "off"]
    /\ req = [r \in Reqs |-> NoReq]
    /\ cloned = [r \in Reqs |-> NoReq]
    /\ cur_key = [r \in Reqs |-> None]
    /\ result = [r \in Reqs |-> NoResult]
    /\ attempts \in {[r \in Reqs |-> IF r = 1 THEN n ELSE 0] : n \in 0..Attempts}
    /\ backoff = Default
    /\ iterations = [r \in Reqs |-> 0]
    /\ budget = attempts
    /\ calls = [r \in Reqs |-> 0]
    /\ traced = TRUE
    /\ hist = NoHist
    /\ lock = Unlocked
    /\ NoBody
    /\ NoCall

NextSeq ==
    \/ \E r \in Reqs, request \in SeqRequests : Arrive(r, request)
    \/ \E r \in Reqs : AuthorizeCall(r)
    \/ \E r \in Reqs, o \in Outcomes : PollResponse(r, o)
    \/ \E r \in Reqs : RemoveStep(r)
    \/ \E r \in Reqs : ShiftStep(r)
    \/ \E r \in Reqs : PolicyRetry(r)
    \/ \E r \in Reqs : BackoffDone(r)

SpecSeq == InitSeq /\ [][NextSeq]_vars

----------------------------------------------------------------------------
(* The KeyPool driven directly by one caller: a sequence of active_key,    *)
(* shift_active_key_if_equal and remove_active_key_if_equal calls, each    *)
(* running to completion before the next.                                  *)

Snapshots == {None} \cup {Some(k) : k \in Keys}

CallActiveKey ==
    /\ op' = "active_key"
    /\ arg' = None
    /\ ret' = active_key(data)
    /\ UNCHANGED <<poolVars, taskVars, initKeys, bodyVars, lock, runStart, runKey, runLen>>

\* A run counts consecutive shift_if calls that present the active key; it
\* starts afresh once it has gone round the pool or after any other call that
\* could change the pool.
CallShiftIf(k) ==
    /\ op' = "shift_if"
    /\ arg' = k
    /\ ret' = None
    /\ keys' = shift_active_key_if_equal(data, k)[1]
    /\ cursor' = shift_active_key_if_equal(data, k)[2]
    /\ IF active_key(data) = k
       THEN IF runLen >= Len(keys)
            THEN /\ runStart' = cursor
                 /\ runKey' = active_key(data)
                 /\ runLen' = 1
            ELSE /\ runLen' = runLen + 1
                 /\ UNCHANGED <<runStart, runKey>>
       ELSE /\ runStart' = cursor'
            /\ runKey' = VecGet(keys', cursor')
            /\ runLen' = 0
    /\ UNCHANGED <<taskVars, initKeys, bodyVars, lock>>

CallRemoveIf(k) ==
    /\ op' = "remove_if"
    /\ arg' = k
    /\ ret' = None
    /\ keys' = remove_active_key_if_equal(data, k)[1]
    /\ cursor' = remove_active_key_if_equal(data, k)[2]
    /\ runStart' = cursor'
    /\ runKey' = VecGet(keys', cursor')
    /\ runLen' = 0
    /\ UNCHANGED <<taskVars, initKeys, bodyVars, lock>>

\* KeyPool::new with any credential list; no request task runs.
InitPool ==
    /\ keys \in AllPools
    /\ cursor = 0
    /\ initKeys = keys
    /\ pc = [r \in Reqs |-> "off"]
    /\ req = [r \in Reqs |-> NoReq]
    /\ cloned = [r \in Reqs |-> NoReq]
    /\ cur_key = [r \in Reqs |-> None]
    /\ result = [r \in Reqs |-> NoResult]
    /\ attempts = [r \in Reqs |-> 0]
    /\ backoff = Default
    /\ iterations = [r \in Reqs |-> 0]
    /\ budget = attempts
    /\ calls = [r \in Reqs |-> 0]
    /\ traced = FALSE
    /\ hist = NoHist
    /\ lock = Unlocked
    /\ NoBody
    /\ NoCall

NextPool ==
    \/ CallActiveKey
    \/ \E k \in Snapshots : CallShiftIf(k)
    \/ \E k \in Snapshots : CallRemoveIf(k)

SpecPool == InitPool /\ [][NextPool]_vars

----------------------------------------------------------------------------
(* Claims *)

\* The step of task r that leaves program point p.
Leaves(r, p) == pc[r] = p /\ pc'[r] # p

\* C1: request r captured credential A and calls remove_if(A); when another
\* request has rotated the pool to a different credential B before that call
\* resolves, the call removes nothing and changes neither the sequence nor the
\* cursor, so that B stays active.
StaleRemoveIsDropped ==
    [][\A r \in Reqs :
         (Leaves(r, "remove") /\ keys = initKeys /\ active_key(data) # cur_key[r])
             => (keys' = keys /\ cursor' = cursor)]_vars

\* C2: two requests used the same active credential K of a pool with more than
\* one credential (the next one differing from K), both received 429 and both
\* called shift_if(K), nothing else touched the pool: when the first shift has
\* been applied, the second one does not move the cursor, so that it advances
\* by one position in total.
TwoShiftsCoalesce ==
    [][\A r \in Reqs : \A q \in Reqs \ {r} :
         ( /\ keys = initKeys /\ Len(keys) > 1 /\ initKeys[1] # initKeys[2]
           /\ Leaves(r, "shift")
           /\ cur_key[r] = Some(initKeys[1])
           /\ calls[r] = 1
           /\ pc[q] = "retry" /\ result[q] = Ok(TOO_MANY_REQUESTS) /\ calls[q] = 1
           /\ \A x \in Reqs \ {r, q} : pc[x] = "idle"
           /\ cursor = 1 )
             => cursor' = 1]_vars

\* C3: the cursor is a valid index into the credential sequence, or the
\* sequence is empty and active_key yields no credential.
CursorValid ==
    \/ cursor < Len(keys)
    \/ (keys = <<>> /\ active_key(data) = None)

\* C3 witness: the last credential of a list of at least two was active and
\* has been removed, which put the cursor back to 0.
CursorValidWitness ==
    /\ Len(initKeys) >= 2
    /\ keys = SubSeq(initKeys, 1, Len(initKeys) - 1)
    /\ initKeys[Len(initKeys)] # initKeys[1]
    /\ cursor = 0

----------------------------------------------------------------------------
(* C4: the end-to-end scenario of one request *)

\* Request 1 arrived without an Authorization header, the pool was built from
\* [K1, K2, K3], the policy has 3 attempts, and the outcomes so far are h.
Scenario(h) ==
    /\ initKeys = <<K1, K2, K3>>
    /\ budget[1] = Attempts
    /\ pc[1] # "idle"
    /\ hist.inbound = None
    /\ hist.outcomes = h

\* The attempt now in flight was sent with credential k.
SentWith(k) ==
    pc[1] = "inflight" => (cur_key[1] = Some(k) /\ Auth(req[1]) = Some(BearerHeader(k)))

\* The response has been inspected and the pool holds v with the cursor at c.
PoolAfterInspection(v, c) ==
    pc[1] \in {"retry", "backoff", "call", "inflight", "done"} => (keys = v /\ cursor = c)

ScenarioStart ==
    /\ Scenario(<<>>) => SentWith(K1)
    /\ Scenario(<<Ok(TOO_MANY_REQUESTS)>>) =>
          (PoolAfterInspection(<<K1, K2, K3>>, 1) /\ SentWith(K2))

ScenarioEnd(v, c) ==
    Scenario(<<Ok(TOO_MANY_REQUESTS), Ok(UNAUTHORIZED), Ok(200)>>) =>
        /\ PoolAfterInspection(v, c)
        /\ pc[1] \in {"retry", "done"}
        /\ result[1] = Ok(200)
        /\ calls[1] = 3
        /\ ~ retry(attempts[1], result[1])

\* C4 as claimed: attempt 1 is sent with K1 and the 429 makes K2 active;
\* attempt 2 is sent with K2 and the 401 leaves the pool [K1, K3] with the
\* cursor reset to 0; attempt 3 is sent with K1 and its 200 is returned after 3
\* attempts.
EndToEndAsClaimed ==
    /\ ScenarioStart
    /\ Scenario(<<Ok(TOO_MANY_REQUESTS), Ok(UNAUTHORIZED)>>) =>
          (PoolAfterInspection(<<K1, K3>>, 0) /\ SentWith(K1))
    /\ ScenarioEnd(<<K1, K3>>, 0)

\* C4 amended: attempt 1 is sent with K1 and the 429 makes K2 active; attempt 2
\* is sent with K2 and the 401 leaves the pool [K1, K3] with the cursor still
\* at index 1, so that K3 is active; attempt 3 is sent with K3 and its 200 is
\* returned after 3 attempts.
EndToEnd ==
    /\ ScenarioStart
    /\ Scenario(<<Ok(TOO_MANY_REQUESTS), Ok(UNAUTHORIZED)>>) =>
          (PoolAfterInspection(<<K1, K3>>, 1) /\ SentWith(K3))
    /\ ScenarioEnd(<<K1, K3>>, 1)

\* C4 witness: the scenario has run to its end and the 200 has been returned.
EndToEndWitness ==
    /\ Scenario(<<Ok(TOO_MANY_REQUESTS), Ok(UNAUTHORIZED), Ok(200)>>)
    /\ pc[1] = "done"

----------------------------------------------------------------------------
(* C5: termination of the retry policy *)

Success(o) == o.kind = "ok" /\ is_success(o.status)

\* Retries request r has been granted so far.
Retries(r) == budget[r] - attempts[r]

\* The outcomes request 1 has received: none after a success, never more than
\* n + 1; the request ends only on a success or with all n + 1 attempts failed.
RetryOutcomes ==
    LET h == hist.outcomes
        n == budget[1]
    IN  /\ \A i \in 1..(Len(h) - 1) : ~ Success(h[i])
        /\ Len(h) <= n + 1
        /\ calls[1] = Retries(1) + (IF pc[1] \in {"idle", "failed", "call"} THEN 0 ELSE 1)
        /\ Len(h) = calls[1] - (IF pc[1] = "inflight" THEN 1 ELSE 0)
        /\ attempts[1] >= 0
        /\ pc[1] = "done" =>
              /\ h # <<>>
              /\ result[1] = h[Len(h)]
              /\ Success(h[Len(h)]) \/ (Len(h) = n + 1 /\ attempts[1] = 0)

\* attempts-remaining changes only when a retry is granted, by exactly one, and
\* every retry dispatches one more attempt.
RetryCountsDown ==
    \A r \in Reqs :
        /\ attempts'[r] # attempts[r] =>
              (attempts'[r] = attempts[r] - 1 /\ Leaves(r, "backoff") /\ pc'[r] = "call")
        /\ Leaves(r, "backoff") => attempts'[r] = attempts[r] - 1

\* C5: with attempts = n the policy stops at the first success whatever
\* attempts remain, retries transport errors and non-success responses alike,
\* and when every outcome fails it stops after exactly n retries, n + 1
\* attempts in all; attempts-remaining goes down by one per retry and never
\* below zero.
RetryTermination == []RetryOutcomes /\ [][RetryCountsDown]_vars

\* C5 witness: the default policy (n = 3) has stopped after 4 failed attempts,
\* among them a transport error and a non-success response.
RetryTerminationWitness ==
    /\ pc[1] = "done"
    /\ budget[1] = Attempts
    /\ Len(hist.outcomes) = Attempts + 1
    /\ \E i, j \in 1..Len(hist.outcomes) : hist.outcomes[i] = Err /\ hist.outcomes[j] = Ok(500)

----------------------------------------------------------------------------
(* C6: what the auth middleware may change *)

\* Every change of the pool is the write of a remove_if that inspects a 401 or
\* of a shift_if that inspects a 429.
MutationOnlyOn401Or429 ==
    (keys' # keys \/ cursor' # cursor) =>
        \E r \in Reqs :
            /\ pc'[r] = "retry"
            /\ \/ pc[r] = "remove" /\ result[r] = Ok(UNAUTHORIZED)
               \/ pc[r] = "shift" /\ result[r] = Ok(TOO_MANY_REQUESTS)

\* An inner call that resolves to a transport error or to a response with any
\* other status leaves the pool alone, starts no pool write, and the result
\* goes on as it is.
OtherOutcomesPassThrough ==
    \A r \in Reqs :
        (Leaves(r, "inflight") /\ result'[r] \notin {Ok(UNAUTHORIZED), Ok(TOO_MANY_REQUESTS)})
            => /\ keys' = keys /\ cursor' = cursor
               /\ pc'[r] = "retry"
               /\ result'[r] \in Outcomes

\* A result, once produced by the inner call, reaches the retry policy and the
\* caller unchanged.
ResultUntouched ==
    \A r \in Reqs :
        (result[r] # NoResult /\ pc'[r] \in {"remove", "shift", "retry", "done"})
            => result'[r] = result[r]

\* C6: the auth middleware mutates the pool only when it inspects a 401
\* (remove_if) or a 429 (shift_if); on a transport error or any other status the
\* sequence and the cursor are unchanged and the result is passed through
\* untouched.
AuthMutatesOnlyOnFeedback ==
    [][MutationOnlyOn401Or429 /\ OtherOutcomesPassThrough /\ ResultUntouched]_vars

\* C6 witness: one request's inner call has failed with a transport error and
\* another's has answered 500; both results are at the retry policy and the
\* pool is as it was built.
AuthMutatesOnlyOnFeedbackWitness ==
    /\ \E r, q \in Reqs : /\ pc[r] = "retry" /\ result[r] = Err
                          /\ pc[q] = "retry" /\ result[q] = Ok(500)
    /\ keys = initKeys /\ keys # <<>>
    /\ cursor = 0

----------------------------------------------------------------------------
(* C7, C8, C9: the KeyPool calls one at a time *)

\* This step is the call name(k).
Called(name, k) == op' = name /\ arg' = k

\* v is u without its element at 0-based index i, the others in their order.
WithoutIndex(v, u, i) ==
    /\ Len(v) = Len(u) - 1
    /\ \A j \in 1..Len(v) : v[j] = IF j <= i THEN u[j] ELSE u[j + 1]

\* remove_if(k) with k the active credential removes the credential at the
\* cursor and no other; the cursor goes to reset(cursor, new length).
RemovesAtCursor(reset(_, _)) ==
    \A k \in Snapshots :
        (Called("remove_if", k) /\ k # None /\ k = active_key(data))
            => /\ WithoutIndex(keys', keys, cursor)
               /\ cursor' = reset(cursor, Len(keys'))

ResetWhenExceeds(c, len) == IF c > len THEN 0 ELSE c
ResetWhenNotBelow(c, len) == IF c >= len THEN 0 ELSE c

\* C7 as claimed: remove_if(snapshot) with the active credential equal to
\* snapshot removes exactly the credential at the cursor, keeps the order of the
\* others, and resets the cursor to 0 if it exceeds the new length, else leaves
\* it unchanged.
RemoveIfAsClaimed == [][RemovesAtCursor(ResetWhenExceeds)]_vars

\* C7 amended: ... and resets the cursor to 0 if it is equal to or greater than
\* the new length (no longer a valid index), else leaves it unchanged.
RemoveIfRemovesAtCursor == [][RemovesAtCursor(ResetWhenNotBelow)]_vars

\* C7 witness: remove_if has just removed the last credential of a list of
\* three while it was active, and the cursor is back at 0.
RemoveIfWitness ==
    /\ op = "remove_if"
    /\ Len(initKeys) = 3
    /\ keys = SubSeq(initKeys, 1, 2)
    /\ arg = Some(initKeys[3])
    /\ \A j \in 1..2 : initKeys[j] # initKeys[3]
    /\ cursor = 0

\* C8: remove_if(snapshot) and shift_if(snapshot) change neither the sequence
\* nor the cursor when the active credential differs from snapshot (snapshot
\* none and the empty pool included); shift_if changes nothing either when the
\* pool holds one credential or none.
NoOpOnMismatch ==
    [][/\ \A k \in Snapshots :
            ((Called("remove_if", k) \/ Called("shift_if", k)) /\ k # active_key(data))
                => (keys' = keys /\ cursor' = cursor)
       /\ \A k \in Snapshots :
            (Called("shift_if", k) /\ Len(keys) <= 1) => (keys' = keys /\ cursor' = cursor)
       /\ \A k \in Snapshots :
            (Called("remove_if", k) /\ keys = <<>>) => (keys' = keys /\ cursor' = cursor)]_vars

\* C8 witness: remove_if was just called with a credential other than the
\* active one, on a pool that still is as it was built.
NoOpOnMismatchWitness ==
    /\ op = "remove_if"
    /\ arg # None
    /\ active_key(data) # None
    /\ arg # active_key(data)
    /\ keys = initKeys

\* Within a run the sequence is the one the run started with, and the cursor
\* has moved on by one position per call, modulo the length.
RunAdvances ==
    (Len(keys) >= 1 /\ runLen <= Len(keys)) =>
        /\ cursor = (runStart + runLen) % Len(keys)
        /\ runLen = Len(keys) => (cursor = runStart /\ active_key(data) = runKey)

\* C9: N consecutive shift_if calls, each with the then-active credential and
\* nothing else in between, bring the cursor and the active credential of a
\* pool of N >= 1 credentials back to where they were; each such call on a pool
\* of N > 1 moves the cursor to (cursor + 1) mod N and leaves the sequence
\* unchanged.
ShiftWrapsAround ==
    /\ []RunAdvances
    /\ [][\A k \in Snapshots :
            (Called("shift_if", k) /\ k = active_key(data) /\ Len(keys) > 1)
                => (cursor' = (cursor + 1) % Len(keys) /\ keys' = keys)]_vars

\* C9 witness: a run has gone once round a pool of three distinct credentials
\* that started away from position 0.
ShiftWrapsAroundWitness ==
    /\ Len(keys) = 3
    /\ runLen = 3
    /\ runStart = 2
    /\ cursor = 2
    /\ keys[1] # keys[2] /\ keys[2] # keys[3] /\ keys[1] # keys[3]

----------------------------------------------------------------------------
(* The pipeline with inbound requests that may be abandoned: hyper drops   *)
(* the task of a request whose client has gone.                            *)

\* Faulty variant of drop_response_future: the feedback runs on drop.
drop_response_future_removes(d, key) == remove_active_key_if_equal(d, key)

\* Dropping a ResponseFuture drops its fields, the KeyPool handle and cur_key
\* among them; the struct has no Drop of its own, the pool keeps its data.
drop_response_future(d, key) == d

\* A task can be dropped only where it is suspended: while the transport call
\* is pending or while the backoff sleeps.  ResponseFuture::poll inspects the
\* response and calls the pool without suspending, so the task is not dropped
\* between the arrival of the response and the end of the pool call.
Cancel(r) ==
    /\ pc[r] \in {"inflight", "backoff"}
    /\ keys' = drop_response_future(data, cur_key[r])[1]
    /\ cursor' = drop_response_future(data, cur_key[r])[2]
    /\ pc' = [pc EXCEPT ![r] = "cancelled"]
    /\ req' = [req EXCEPT ![r] = NoReq]
    /\ cloned' = [cloned EXCEPT ![r] = NoReq]
    /\ cur_key' = [cur_key EXCEPT ![r] = None]
    /\ result' = [result EXCEPT ![r] = NoResult]
    /\ UNCHANGED <<callVars, initKeys, bodyVars, lock, attempts, backoffVars, budget, calls, traced,
                   hist>>

NextCancel ==
    \/ \E r \in Reqs, request \in InboundRequests : Arrive(r, request)
    \/ \E r \in Reqs : AuthorizeCall(r)
    \/ \E r \in Reqs, o \in Outcomes : PollResponse(r, o)
    \/ \E r \in Reqs : RemoveStep(r)
    \/ \E r \in Reqs : ShiftStep(r)
    \/ \E r \in Reqs : PolicyRetry(r)
    \/ \E r \in Reqs : BackoffDone(r)
    \/ \E r \in Reqs : Cancel(r)

SpecCancel == Init /\ [][NextCancel]_vars

----------------------------------------------------------------------------
(* WithBackoff::clone_request called directly on a buffered request.       *)

HeaderEntries ==
    { <<AUTHORIZATION, Bearer \o K1>>, <<AUTHORIZATION, <<"k1">>>>,
      Accept, <<"accept", <<"xml">>>>, <<"x-request-id", <<"1">>>> }

BufferedRequests ==
    [method : {"GET", "POST"}, uri : {"/v6/ping", "/v6/device"},
     headers : SeqsUpTo(HeaderEntries, MaxHeaders), body : {<<>>, <<1>>, <<1, 2>>}]

\* One call per run, on any of the requests.
CallCloneRequest(request) ==
    /\ op = "none"
    /\ op' = "clone_request"
    /\ arg' = request
    /\ ret' = clone_request(request)
    /\ UNCHANGED <<poolVars, taskVars, initKeys, bodyVars, lock, runStart, runKey, runLen>>

InitClone == InitPool /\ keys = <<>>

NextClone == \E request \in BufferedRequests : CallCloneRequest(request)

SpecClone == InitClone /\ [][NextClone]_vars

----------------------------------------------------------------------------
(* ExponentialBackoff::next called again and again on the state the last   *)
(* call returned, starting from ExponentialBackoff::new(min, max, jitter).  *)

\* Configurations with min <= max and max > 0, as base asserts: jitter 0,
\* 1/2, the default 2.0 and a very large one.
Minimums == {Zero, Dur(0, 1), Secs(1), Dur(1, 2), Secs(8)}
Maximums == {Secs(8), Secs(DefaultMax), Secs(U64Max)}
Jitters == {0, 1, DefaultJitter * FDen, 2 * U64Max * FDen}
Configs == {Backoff(mn, mx, j, 0) : mn \in Minimums, mx \in Maximums, j \in Jitters}

CallNext(jitter_factor, overflow_checks) ==
    /\ ret # Panicked
    /\ op' = "next"
    /\ arg' = BackoffOf(1)
    /\ ret' = next(BackoffOf(1), jitter_factor, overflow_checks)
    /\ iterations' = IF ret'.kind = "ok"
                     THEN [iterations EXCEPT ![1] = ret'.this.iterations]
                     ELSE iterations
    /\ UNCHANGED <<poolVars, initKeys, bodyVars, lock, backoff, pc, req, cloned, cur_key, result, attempts,
                   budget, calls, traced, hist, runStart, runKey, runLen>>

InitBackoff ==
    /\ keys = <<>>
    /\ cursor = 0
    /\ initKeys = keys
    /\ pc = [r \in Reqs |-> "off"]
    /\ req = [r \in Reqs |-> NoReq]
    /\ cloned = [r \in Reqs |-> NoReq]
    /\ cur_key = [r \in Reqs |-> None]
    /\ result = [r \in Reqs |-> NoResult]
    /\ attempts = [r \in Reqs |-> 0]
    /\ backoff \in Configs
    /\ iterations = [r \in Reqs |-> 0]
    /\ budget = attempts
    /\ calls = [r \in Reqs |-> 0]
    /\ traced = FALSE
    /\ hist = NoHist
    /\ lock = Unlocked
    /\ NoBody
    /\ NoCall

NextBackoff ==
    \E jitter_factor \in Draws, overflow_checks \in BOOLEAN :
        CallNext(jitter_factor, overflow_checks)

SpecBackoff == InitBackoff /\ [][NextBackoff]_vars

----------------------------------------------------------------------------
(* The pool calls of the pipeline step by step: taking a guard of          *)
(* KeyPool.data's std::sync::RwLock and returning from the function that   *)
(* took it are separate steps, so that tasks on different worker threads   *)
(* interleave inside the pool functions.  A task that cannot get the lock  *)
(* blocks its thread: its step is not enabled.                             *)

\* RwLock::read returns a guard when no task holds the write guard.
can_read(l) == l.writer = None

read(l, r) == [l EXCEPT !.readers = @ \cup {r}]

\* RwLock::write returns a guard when no task holds any guard.
can_write(l) == l.readers = {} /\ l.writer = None

write(l, r) == [l EXCEPT !.writer = Some(r)]

\* Faulty variant of drop_guard: the guard outlives the function that took
\* it.
drop_guard_leaked(l, r) == l

\* The guard `data` of a KeyPool function goes out of scope when the function
\* returns.
drop_guard(l, r) == [readers |-> l.readers \ {r},
                     writer |-> IF l.writer = Some(r) THEN None ELSE l.writer]

\* KeyPool::active_key, `self.data.read().unwrap()`: called by Authorize::call
\* for a request without a caller's key and by the *_if_equal functions.
ActiveKeyLock(r) ==
    /\ \/ pc[r] = "call" /\ extract_api_key(req[r]) = None
       \/ pc[r] = "peek"
    /\ can_read(lock)
    /\ lock' = read(lock, r)
    /\ pc' = [pc EXCEPT ![r] = IF @ = "call" THEN "call_read" ELSE "peek_read"]
    /\ UNCHANGED <<poolVars, callVars, backoffVars, initKeys, bodyVars, req, cloned, cur_key,
                   result, attempts, budget, calls, traced, hist>>

\* Authorize::call from the return of active_key (or from its start, for a
\* request with a caller's key) to the return of the ResponseFuture, which is
\* then polled: the task waits for the transport.
AuthorizeCallReturns(r) ==
    /\ \/ pc[r] = "call" /\ extract_api_key(req[r]) # None
       \/ pc[r] = "call_read"
    /\ LET extracted == extract_api_key(req[r])
           api_key == IF extracted = None THEN active_key(data) ELSE extracted
       IN  /\ cur_key' = [cur_key EXCEPT ![r] = api_key]
           /\ req' = [req EXCEPT ![r] =
                        IF extracted = None /\ api_key # None
                        THEN [@ EXCEPT !.headers = HeaderInsert(@, AUTHORIZATION,
                                                     BearerHeader(api_key[1]))]
                        ELSE @]
    /\ lock' = drop_guard(lock, r)
    /\ calls' = [calls EXCEPT ![r] = @ + 1]
    /\ pc' = [pc EXCEPT ![r] = "inflight"]
    /\ UNCHANGED <<backoffVars, poolVars, callVars, initKeys, bodyVars, cloned, result, attempts,
                   budget, traced, hist>>

\* ResponseFuture::poll once the inner future is ready with outcome o, up to
\* the call of a *_if_equal function.
PollReady(r, o) ==
    /\ pc[r] = "inflight"
    /\ result' = [result EXCEPT ![r] = o]
    /\ req' = [req EXCEPT ![r] = NoReq]
    /\ IF Inspect(o) = "pass"
       THEN /\ pc' = [pc EXCEPT ![r] = "retry"]
            /\ cur_key' = [cur_key EXCEPT ![r] = None]
       ELSE /\ pc' = [pc EXCEPT ![r] = "peek"]
            /\ cur_key' = cur_key
    /\ UNCHANGED <<backoffVars, poolVars, callVars, initKeys, bodyVars, lock, cloned, attempts,
                   budget, calls, traced, hist>>

\* active_key returns to a *_if_equal function, which compares the key with
\* the one the ResponseFuture holds.
ActiveKeyReturns(r) ==
    /\ pc[r] = "peek_read"
    /\ lock' = drop_guard(lock, r)
    /\ IF active_key(data) = cur_key[r]
       THEN /\ pc' = [pc EXCEPT ![r] = Inspect(result[r])]
            /\ cur_key' = cur_key
       ELSE /\ pc' = [pc EXCEPT ![r] = "retry"]
            /\ cur_key' = [cur_key EXCEPT ![r] = None]
    /\ UNCHANGED <<backoffVars, poolVars, callVars, initKeys, bodyVars, req, cloned, result,
                   attempts, budget, calls, traced, hist>>

\* remove_active_key or shift_active_key, `self.data.write().unwrap()`.
WriteLock(r) ==
    /\ pc[r] \in {"remove", "shift"}
    /\ can_write(lock)
    /\ lock' = write(lock, r)
    /\ pc' = [pc EXCEPT ![r] = IF @ = "remove" THEN "remove_write" ELSE "shift_write"]
    /\ UNCHANGED <<poolVars, callVars, backoffVars, initKeys, bodyVars, req, cloned, cur_key,
                   result, attempts, budget, calls, traced, hist>>

\* remove_active_key or shift_active_key changes the pool and returns; the
\* ResponseFuture returns its result.
WriteReturns(r) ==
    /\ pc[r] \in {"remove_write", "shift_write"}
    /\ LET after == IF pc[r] = "remove_write"
                    THEN remove_active_key(data)
                    ELSE shift_active_key(data)
       IN  /\ keys' = after[1]
           /\ cursor' = after[2]
    /\ lock' = drop_guard(lock, r)
    /\ pc' = [pc EXCEPT ![r] = "retry"]
    /\ cur_key' = [cur_key EXCEPT ![r] = None]
    /\ UNCHANGED <<backoffVars, callVars, initKeys, bodyVars, req, cloned, result, attempts,
                   budget, calls, traced, hist>>

NextLock ==
    \/ \E r \in Reqs, request \in InboundRequests : Arrive(r, request)
    \/ \E r \in Reqs : ActiveKeyLock(r)
    \/ \E r \in Reqs : AuthorizeCallReturns(r)
    \/ \E r \in Reqs, o \in Outcomes : PollReady(r, o)
    \/ \E r \in Reqs : ActiveKeyReturns(r)
    \/ \E r \in Reqs : WriteLock(r)
    \/ \E r \in Reqs : WriteReturns(r)
    \/ \E r \in Reqs : PolicyRetry(r)
    \/ \E r \in Reqs : BackoffDone(r)

\* KeyPool::new with a list of InitPools; the first task has the retry budget and
\* reaches the backoff wait, the others make one attempt each.
InitLock ==
    /\ keys \in InitPools
    /\ cursor = 0
    /\ initKeys = keys
    /\ pc = [r \in Reqs |-> "idle"]
    /\ req = [r \in Reqs |-> NoReq]
    /\ cloned = [r \in Reqs |-> NoReq]
    /\ cur_key = [r \in Reqs |-> None]
    /\ result = [r \in Reqs |-> NoResult]
    /\ attempts = [r \in Reqs |-> IF r = 1 THEN MaxRetries ELSE 0]
    /\ backoff = Default
    /\ iterations = [r \in Reqs |-> 0]
    /\ budget = attempts
    /\ calls = [r \in Reqs |-> 0]
    /\ traced = FALSE
    /\ hist = NoHist
    /\ lock = Unlocked
    /\ NoBody
    /\ NoCall

SpecLock == InitLock /\ [][NextLock]_vars

----------------------------------------------------------------------------
(* A ByteBody read as a body stream (read_request_body.rs): the consumer   *)
(* calls poll_data until it signals the end of the stream.                 *)

Octets == {1, 2}

\* The contents a ByteBody is made with.
Bodies == SeqsUpTo(Octets, MaxBody)

\* ByteBody::poll_data: Poll::Ready(Some(Ok(Bytes::copy_from_slice(&self.data)))),
\* whatever has been returned before.
poll_data(bytes) == Some([kind |-> "ok", data |-> bytes])

\* ByteBody::size_hint: SizeHint::with_exact(self.data.len()).
size_hint(bytes) == [lower |-> Len(bytes), upper |-> Some(Len(bytes))]

\* One more poll_data call of a consumer that drains the body: it stops at
\* the end of the stream.
CallPollData ==
    /\ Len(polled) < MaxPolls
    /\ IF polled = <<>> THEN TRUE ELSE polled[Len(polled)] # None
    /\ polled' = Append(polled, poll_data(byte_body))
    /\ UNCHANGED <<poolVars, taskVars, callVars, initKeys, lock, byte_body>>

\* ByteBody::new with any content; nothing has been polled.
InitBody ==
    /\ keys = <<>>
    /\ cursor = 0
    /\ initKeys = keys
    /\ pc = [r \in Reqs |-> "off"]
    /\ req = [r \in Reqs |-> NoReq]
    /\ cloned = [r \in Reqs |-> NoReq]
    /\ cur_key = [r \in Reqs |-> None]
    /\ result = [r \in Reqs |-> NoResult]
    /\ attempts = [r \in Reqs |-> 0]
    /\ backoff = Default
    /\ iterations = [r \in Reqs |-> 0]
    /\ budget = attempts
    /\ calls = [r \in Reqs |-> 0]
    /\ traced = FALSE
    /\ hist = NoHist
    /\ lock = Unlocked
    /\ byte_body \in Bodies
    /\ polled = <<>>
    /\ NoCall

NextBody == CallPollData

SpecBody == InitBody /\ [][NextBody]_vars

----------------------------------------------------------------------------
(* C10: removal is permanent *)

\* s is t with some elements left out, the others in their order.
RECURSIVE IsSubseq(_, _)
IsSubseq(s, t) ==
    IF s = <<>> THEN TRUE
    ELSE IF t = <<>> THEN FALSE
    ELSE IF Head(s) = Head(t) THEN IsSubseq(Tail(s), Tail(t))
    ELSE IsSubseq(s, Tail(t))

NeverGrows ==
    /\ Len(keys') <= Len(keys)
    /\ keys = <<>> => (keys' = <<>> /\ active_key(<<keys', cursor'>>) = None)
    /\ \A r \in Reqs :
          (Leaves(r, "remove") /\ Len(keys) = 1 /\ active_key(data) = cur_key[r])
              => keys' = <<>>
    /\ \A r \in Reqs :
          (Leaves(r, "call") /\ keys = <<>> /\ extract_api_key(req[r]) = None)
              => (cur_key'[r] = None /\ Auth(req'[r]) = Auth(req[r]))

\* C10: the credential sequence always is an order-preserving subsequence of
\* the initial list and never gets longer; a pool of one credential is empty
\* after remove_if with that credential, and from then on it stays empty and
\* every active_key returns none.
RemovalIsPermanent == [](IsSubseq(keys, initKeys)) /\ [][NeverGrows]_vars

\* C10 witness: a pool built from one credential has been emptied by a
\* request's remove_if, and the active_key of a later attempt returned none.
RemovalIsPermanentWitness ==
    /\ Len(initKeys) = 1
    /\ keys = <<>>
    /\ \E r \in Reqs : pc[r] = "inflight" /\ calls[r] = 2 /\ cur_key[r] = None
                       /\ Auth(req[r]) = None

----------------------------------------------------------------------------
(* C11: what clone_request copies *)

\* The values stored under a name, in order.
RECURSIVE HeaderValues(_, _)
HeaderValues(headers, name) ==
    IF headers = <<>> THEN <<>>
    ELSE (IF Head(headers)[1] = name THEN <<Head(headers)[2]>> ELSE <<>>)
         \o HeaderValues(Tail(headers), name)

HeaderNames(headers) == {headers[i][1] : i \in 1..Len(headers)}

\* C11: clone_request of a request that carries an Authorization header
\* yields a request without that header, with the same method, the same
\* target URI, every other header with its values and an equal body.
CloneStripsCredential ==
    (op = "clone_request" /\ Auth(arg) # None) =>
        /\ Auth(ret) = None
        /\ AUTHORIZATION \notin HeaderNames(ret.headers)
        /\ ret.method = arg.method
        /\ ret.uri = arg.uri
        /\ ret.body = arg.body
        /\ HeaderNames(ret.headers) = HeaderNames(arg.headers) \ {AUTHORIZATION}
        /\ \A n \in HeaderNames(ret.headers) :
              HeaderValues(ret.headers, n) = HeaderValues(arg.headers, n)

\* C11 witness: a POST with a body, an Authorization header and two values of
\* another header has been cloned.
CloneStripsCredentialWitness ==
    /\ op = "clone_request"
    /\ arg.method = "POST"
    /\ arg.body = <<1, 2>>
    /\ arg.headers = <<Accept, <<AUTHORIZATION, Bearer \o K1>>, <<"accept", <<"xml">>>>>>
    /\ ret.headers = <<Accept, <<"accept", <<"xml">>>>>>

----------------------------------------------------------------------------
(* C12: a caller's Authorization header *)

\* The credential of an Authorization value: what follows the scheme, or the
\* whole value when it names no scheme.
Credential(value) ==
    IF FirstSpace(value) = 0 THEN value
    ELSE SubSeq(value, FirstSpace(value) + 1, Len(value))

\* C12: a request that reaches Authorize::call with an Authorization header is
\* forwarded with exactly that header value, whatever the pool contains, and
\* the credential remembered for remove_if/shift_if is the caller's; the
\* pool's active key is injected only when the header is absent.
CallerCredentialKept ==
    [][\A r \in Reqs :
          Leaves(r, "call") =>
              /\ Auth(req[r]) # None =>
                    /\ Auth(req'[r]) = Auth(req[r])
                    /\ cur_key'[r] = Some(Credential(Auth(req[r])[1]))
              /\ Auth(req'[r]) # Auth(req[r]) => Auth(req[r]) = None]_vars

----------------------------------------------------------------------------
(* C13, C14: the delays of the exponential backoff *)

\* min(t * 2^n, cap) over the naturals, by doubling.
RECURSIVE DoubledUpTo(_, _, _)
DoubledUpTo(t, n, cap) ==
    IF t >= cap THEN cap
    ELSE IF n = 0 \/ t = 0 THEN t
    ELSE DoubledUpTo(2 * t, n - 1, cap)

\* C13: with jitter = 0 the delay at iteration i is min(minimum * 2^i,
\* maximum) for every i >= 0 (so 1 s, 2 s, 4 s, 8 s, 8 s for minimum 1 s and
\* maximum 8 s).
ExponentialSequence ==
    (op = "next" /\ arg.jitter = 0 /\ ret.kind = "ok") =>
        Ticks(ret.timeout) = DoubledUpTo(Ticks(arg.min), arg.iterations, Ticks(arg.max))

\* C14: for minimum <= maximum, any jitter >= 0, any iteration count and any
\* draw in (0, 1], an advance computes a delay within [minimum, maximum] and
\* returns a state whose iteration count is one more.
DelayWithinBounds ==
    op = "next" =>
        /\ ret.kind = "ok"
        /\ Ticks(arg.min) <= Ticks(ret.timeout)
        /\ Ticks(ret.timeout) <= Ticks(arg.max)
        /\ ret.this.iterations = arg.iterations + 1

----------------------------------------------------------------------------
(* C15, C16: the body of the inbound request *)

\* The bytes of the stream request 1 arrived with.
OriginalBody == Concat(hist.stream[1].chunks)

BodyBuffered ==
    /\ pc[1] = "idle" => (hist.reads = 0 /\ calls[1] = 0)
    /\ pc[1] \notin {"idle", "off"} => hist.reads = 1
    /\ pc[1] \in {"call", "inflight"} => req[1].body = OriginalBody
    /\ pc[1] \in {"call", "inflight", "remove", "shift", "retry", "backoff"} =>
          cloned[1].body = OriginalBody

\* The stream is read when the request arrives and at no other step; the
\* request of a retry is the stored copy.
BodyNotReadAgain ==
    /\ hist.reads' # hist.reads => (pc[1] = "idle" /\ hist.reads' = hist.reads + 1)
    /\ Leaves(1, "backoff") => (pc'[1] = "call" /\ req'[1].body = cloned[1].body)

\* C15: the body stream is read to its end exactly once per inbound request,
\* before the first attempt is dispatched and however many retries follow;
\* every attempt carries a body byte-identical to the original, a copy of the
\* buffered body.
BodyReadOnce == []BodyBuffered /\ [][BodyNotReadAgain]_vars

\* C15 witness: the fourth attempt of a request whose body came in two chunks
\* is in flight with the three bytes of the original.
BodyReadOnceWitness ==
    /\ pc[1] = "inflight"
    /\ calls[1] = Attempts + 1
    /\ hist.reads = 1
    /\ Len(hist.stream[1].chunks) = 2
    /\ req[1].body = <<1, 2, 3>>

\* C16: when the body stream cannot be read to its end the request fails at
\* once: retry, auth and transport are never invoked for it, no retry is
\* attempted and the credential pool is unchanged.
UnreadableBodyFails ==
    (hist.stream # None /\ ~ hist.stream[1].ok) =>
        /\ pc[1] = "failed"
        /\ calls[1] = 0
        /\ hist.outcomes = <<>>
        /\ attempts[1] = budget[1]
        /\ req[1] = NoReq /\ cloned[1] = NoReq /\ cur_key[1] = None
        /\ keys = initKeys /\ cursor = 0

\* C16 witness: a request with a broken body stream has failed, the policy
\* having three attempts and the pool two credentials.
UnreadableBodyFailsWitness ==
    /\ pc[1] = "failed"
    /\ hist.stream # None /\ ~ hist.stream[1].ok
    /\ budget[1] = Attempts
    /\ Len(keys) = 2

----------------------------------------------------------------------------
(* C17: an empty pool *)

EmptyPoolStep ==
    \A r \in Reqs :
        /\ (Leaves(r, "call") /\ keys = <<>> /\ Auth(req[r]) = None) =>
              /\ pc'[r] = "inflight"
              /\ req'[r] = req[r]
              /\ Auth(req'[r]) = None
              /\ cur_key'[r] = None
        /\ (pc[r] \in {"inflight", "remove", "shift"} /\ keys = <<>> /\ cur_key[r] = None) =>
              /\ pc'[r] \in {"inflight", "remove", "shift", "retry"}
              /\ keys' = <<>>
              /\ cursor' = cursor

\* C17: with an empty pool and no Authorization header on the request,
\* Authorize::call does not fail: it dispatches the request without the
\* header and remembers no credential, and a 401 or 429 response to that
\* attempt leaves the empty pool as it is.
EmptyPoolProceeds == [][EmptyPoolStep]_vars

\* C17 witness: the request arrived without the header, the pool was built
\* empty, the attempt was answered 401 and remove_if(None) is about to run.
EmptyPoolProceedsWitness ==
    /\ initKeys = <<>>
    /\ hist.inbound = None
    /\ pc[1] = "remove"
    /\ cur_key[1] = None
    /\ hist.outcomes = <<Ok(UNAUTHORIZED)>>

----------------------------------------------------------------------------
(* C18: what a retry is sent with *)

\* The pool after the feedback on outcome o of an attempt that was dispatched
\* with credential k when the pool was d.
AfterFeedback(d, k, o) ==
    IF o = Ok(UNAUTHORIZED) THEN remove_active_key_if_equal(d, k)
    ELSE IF o = Ok(TOO_MANY_REQUESTS) THEN shift_active_key_if_equal(d, k)
    ELSE d

\* The credential an attempt is dispatched with when the pool is d and the
\* request carries the Authorization header h.
Attached(d, h) ==
    LET carried == extract_api_key([headers |-> IF h = None THEN <<>>
                                                ELSE <<<<AUTHORIZATION, h[1]>>>>])
    IN  IF carried = None THEN active_key(d) ELSE carried

\* Once the response to attempt N has been inspected, and so when the retry
\* decision is taken and when attempt N + 1 is dispatched, the pool is the
\* pool of attempt N's dispatch with that response's removal or rotation
\* applied.
FeedbackApplied ==
    (pc[1] \in {"retry", "backoff", "call"} /\ hist.outcomes # <<>>) =>
        data = AfterFeedback(hist.pool,
                             Attached(hist.pool, IF calls[1] = 1 THEN hist.inbound ELSE None),
                             hist.outcomes[Len(hist.outcomes)])

\* A retry is dispatched from the clone, which has no Authorization header,
\* and gets the key that is active at that moment.
RetryInjected ==
    (Leaves(1, "call") /\ calls[1] >= 1) =>
        /\ Auth(req[1]) = None
        /\ cur_key'[1] = active_key(data)
        /\ Auth(req'[1]) = IF active_key(data) = None THEN None
                           ELSE Some(BearerHeader(active_key(data)[1]))

\* C18: every retry attempt is injected with the pool's active credential as
\* of its dispatch, and the rotation or removal triggered by the response to
\* attempt N is applied before the retry decision for attempt N, so attempt
\* N + 1 sees it.
RetrySeesFeedback == []FeedbackApplied /\ [][RetryInjected]_vars

\* C18 witness: the request came with the caller's key K2, the pool was built
\* from [K1, K2]; attempt 1 got 429 (K2 not active: no rotation), attempt 2
\* went out with K1 and got 429, and attempt 3 is in flight with K2.
RetrySeesFeedbackWitness ==
    /\ initKeys = <<K1, K2>>
    /\ hist.inbound = Some(Bearer \o K2)
    /\ hist.outcomes = <<Ok(TOO_MANY_REQUESTS), Ok(TOO_MANY_REQUESTS)>>
    /\ pc[1] = "inflight"
    /\ cur_key[1] = Some(K2)
    /\ Auth(req[1]) = Some(BearerHeader(K2))
    /\ cursor = 1

----------------------------------------------------------------------------
(* C19: the credential the feedback is about *)

\* While an attempt is in flight the ResponseFuture holds the credential its
\* request was sent with.
CapturedIsSent ==
    \A r \in Reqs : pc[r] = "inflight" => cur_key[r] = extract_api_key(req[r])

\* Whatever other requests do to the pool meanwhile, the captured credential
\* stays; when the response is a 401 or a 429 it is that credential which is
\* compared with the active one: the pool is written only if they are equal.
CapturedIsPresented ==
    \A r \in Reqs :
        /\ (pc[r] = "inflight" /\ pc'[r] = "inflight") => cur_key'[r] = cur_key[r]
        /\ (Leaves(r, "inflight") /\ Inspect(result'[r]) # "pass") =>
              IF cur_key[r] = active_key(data)
              THEN pc'[r] = Inspect(result'[r]) /\ cur_key'[r] = cur_key[r]
              ELSE pc'[r] = "retry"
        /\ Leaves(r, "inflight") => (keys' = keys /\ cursor' = cursor)
        /\ pc'[r] \in {"remove", "shift"} => cur_key'[r] = cur_key[r]

\* C19: the credential presented to remove_if/shift_if after the response is
\* the one attached to (or found on) the attempt's request when it was
\* dispatched, even if other requests changed the active credential while
\* the attempt was in flight; it is never read again from the pool.
FeedbackUsesCaptured == []CapturedIsSent /\ [][CapturedIsPresented]_vars

\* C19 witness: a request sent with K1 got a 401 after another request had
\* rotated the pool to K2; nothing was removed.
FeedbackUsesCapturedWitness ==
    /\ initKeys = <<K1, K2>>
    /\ keys = initKeys
    /\ cursor = 1
    /\ \E r \in Reqs : /\ pc[r] = "retry"
                       /\ calls[r] = 1
                       /\ result[r] = Ok(UNAUTHORIZED)

----------------------------------------------------------------------------
(* C20: abandoned requests *)

PoolWhole == (keys = <<>> /\ cursor = 0) \/ cursor < Len(keys)

NoFeedbackAfterCancel ==
    /\ \A r \in Reqs :
          /\ pc[r] = "cancelled" =>
                (pc'[r] = "cancelled" /\ cur_key'[r] = None /\ calls'[r] = calls[r])
          /\ (pc[r] # "cancelled" /\ pc'[r] = "cancelled") =>
                (pc[r] \in {"inflight", "backoff"} /\ keys' = keys /\ cursor' = cursor)
    /\ <<keys', cursor'>> # data =>
          \E q \in Reqs :
              \/ Leaves(q, "remove") /\ pc'[q] = "retry"
                    /\ <<keys', cursor'>> = remove_active_key(data)
              \/ Leaves(q, "shift") /\ pc'[q] = "retry"
                    /\ <<keys', cursor'>> = shift_active_key(data)

\* C20: a request cancelled while an attempt is in flight or during a backoff
\* wait does nothing to the pool afterwards: no remove_if or shift_if runs for
\* the cancelled attempt, and every change of the pool is one whole removal
\* or rotation by a request that saw its response.
CancelLeavesPool == []PoolWhole /\ [][NoFeedbackAfterCancel]_vars

\* C20 witness: one request was cancelled with its first attempt in flight,
\* and afterwards another request's 429 rotated the pool.
CancelLeavesPoolWitness ==
    \E r \in Reqs : \E q \in Reqs \ {r} :
        /\ pc[r] = "cancelled"
        /\ calls[r] = 1
        /\ attempts[r] = budget[r]
        /\ pc[q] = "retry"
        /\ result[q] = Ok(TOO_MANY_REQUESTS)
        /\ keys = initKeys
        /\ cursor = 1

----------------------------------------------------------------------------
(* C21: pool accesses are non-suspending critical sections *)

\* Where a request task is suspended: reading the inbound body, waiting for
\* the transport, waiting out the backoff.
SuspensionPoints == {"idle", "inflight", "backoff"}

Holds(r) == r \in lock.readers \/ lock.writer = Some(r)

\* Task r is about to take a guard of the pool's lock.
Waits(r) ==
    \/ pc[r] = "call" /\ extract_api_key(req[r]) = None
    \/ pc[r] \in {"peek", "remove", "shift"}

Acquire(r) == ActiveKeyLock(r) \/ WriteLock(r)

Release(r) == AuthorizeCallReturns(r) \/ ActiveKeyReturns(r) \/ WriteReturns(r)

\* The other tasks whose guards stand in the way of r.
Blockers(r) == {q \in Reqs \ {r} : Holds(q)}

\* C21: a task that is suspended or has ended holds no guard of the pool's
\* lock; a task about to take a guard holds none yet, gets it when no other
\* task holds one, and is otherwise kept waiting only by tasks that are not
\* suspended and whose return from the pool function, which drops the guard,
\* is enabled.  So no suspended or stalled request blocks a pool call and the
\* pool calls cannot deadlock.
PoolAccessNonSuspending ==
    \A r \in Reqs :
        /\ pc[r] \in SuspensionPoints \cup {"done", "failed"} => ~Holds(r)
        /\ Waits(r) =>
              /\ ~Holds(r)
              /\ Blockers(r) = {} => ENABLED Acquire(r)
              /\ \A q \in Blockers(r) :
                     pc[q] \notin SuspensionPoints /\ ENABLED Release(q)

\* One request waits for the transport while another one holds the write
\* guard.
PoolAccessNonSuspendingWitness ==
    \E r, q \in Reqs :
        /\ r # q
        /\ pc[r] = "inflight"
        /\ lock.writer = Some(q)
        /\ pc[q] \in {"remove_write", "shift_write"}

----------------------------------------------------------------------------
(* C22: a ByteBody read as a stream delivers its bytes and ends *)

\* The bytes the poll_data calls have delivered so far, in order.
Delivered == Concat([i \in 1..Len(SelectSeq(polled, LAMBDA x : x # None)) |->
                        SelectSeq(polled, LAMBDA x : x # None)[i][1].data])

EndOfStream == polled # <<>> /\ polled[Len(polled)] = None

\* C22: the chunks poll_data yields add up to the stored content and no
\* further: what has been delivered is a prefix of the content, never more
\* than size_hint announces; the end of the stream is signalled only after the
\* whole content; and a body of L bytes has signalled it by the time it was
\* polled L + 2 times.
ByteBodyDrains ==
    /\ Len(Delivered) <= size_hint(byte_body).lower
    /\ Delivered = SubSeq(byte_body, 1, Len(Delivered))
    /\ EndOfStream => Delivered = byte_body
    /\ Len(polled) >= Len(byte_body) + 2 => EndOfStream

----------------------------------------------------------------------------
(* C23: a caller's credential goes out with the first attempt only *)

\* The request arrived with a credential header of the caller.
CallerSupplied == hist.inbound # None

\* The first attempt leaves Authorize::call with the caller's header.
FirstAttemptCarriesCaller ==
    (Leaves(1, "call") /\ calls[1] = 0 /\ CallerSupplied) =>
        Auth(req'[1]) = hist.inbound

\* A retry reaches Authorize::call without a credential header and leaves it
\* with the pool's active key, or with none when the pool is empty.
RetryCarriesPool ==
    (Leaves(1, "call") /\ calls[1] >= 1 /\ CallerSupplied) =>
        /\ Auth(req[1]) = None
        /\ cur_key'[1] = active_key(data)
        /\ Auth(req'[1]) = IF active_key(data) = None THEN None
                           ELSE Some(BearerHeader(active_key(data)[1]))

\* The 401 or 429 answering a retry is applied with the key that was the
\* pool's active one when the retry was dispatched.
RetryFeedbackAgainstPool ==
    (Leaves(1, "inflight") /\ calls[1] >= 2 /\ CallerSupplied
        /\ Inspect(result'[1]) # "pass") =>
        /\ cur_key[1] = active_key(hist.pool)
        /\ pc'[1] = Inspect(result'[1]) <=> active_key(data) = cur_key[1]

\* C23: of a request that arrived with a caller's credential header, the first
\* attempt is sent with the caller's credential and no later one: every retry
\* is built from the clone without the header, is sent with the pool's active
\* credential of that moment (with no credential header when the pool is
\* empty), and its 401 or 429 is applied against that pool credential.
CallerOnlyOnFirstAttempt ==
    [][FirstAttemptCarriesCaller /\ RetryCarriesPool /\ RetryFeedbackAgainstPool]_vars

====
